---- MODULE Spec2Model ----
(***************************************************************************)
(* Model of src/extract_images.py: the four signature scanners             *)
(* (extract_pngs, extract_jpegs, extract_gifs, extract_bmps), the          *)
(* validator is_valid_image, and the aggregator extract_images.            *)
(*                                                                         *)
(* A buffer is a sequence of bytes (0..255).  Offsets are 0-based as in    *)
(* the source; byte at offset i is data[i + 1].  The Pillow decoder is     *)
(* outside the repository: what it finds in a blob is an input, drawn per  *)
(* call and kept the same for equal (blob, format) pairs, since            *)
(* is_valid_image is a deterministic function of its arguments.            *)
(***************************************************************************)
EXTENDS Integers, Sequences, FiniteSets, TLC

VARIABLES
    data,      \* the buffer being scanned (argument of extract_images)
    pc,        \* control location inside extract_images and its scanners
    start,     \* `start` of the running scanner
    idx,       \* `idx` of the running scanner (-1: no candidate)
    pos,       \* extract_pngs `pos`; extract_jpegs / extract_gifs `cursor`
    end,       \* extract_pngs `end` (-1 stands for None)
    hdr,       \* extract_gifs: index into GIF_HEADERS of the running pass
    results,   \* extract_images `results`, in order of emission
    out,       \* the list extract_images returns
    calls,     \* history: every is_valid_image call made so far
    cands,     \* history: every candidate start a scanner took up
    run,       \* which input is being scanned ("one" | "A" | "B" | "AB")
    bufA,      \* first half of a concatenated input
    bufB,      \* second half of a concatenated input
    outA,      \* extract_images(bufA)
    outB,      \* extract_images(bufB)
    steps      \* history: loop iterations and validator calls so far

vars == <<data, pc, start, idx, pos, end, hdr, results, out, calls, cands,
          run, bufA, bufB, outA, outB, steps>>

(***************************************************************************)
(* Module constants of the source                                          *)
(***************************************************************************)
PNG_MAGIC == <<137, 80, 78, 71, 13, 10, 26, 10>>
JPEG_MAGIC == <<255, 216, 255>>
GIF_HEADERS == << <<71, 73, 70, 56, 55, 97>>, <<71, 73, 70, 56, 57, 97>> >>
BMP_MAGIC == <<66, 77>>
JPEG_EOI == <<255, 217>>
GIF_TRAILER == <<59>>
IEND == <<73, 69, 78, 68>>
minimum_size == 54

(***************************************************************************)
(* bytes primitives: slicing, find, struct.unpack                          *)
(***************************************************************************)
Min(a, b) == IF a <= b THEN a ELSE b

\* data[a:b] for 0 <= a: Python clamps the slice to the buffer.
Slice(d, a, b) == SubSeq(d, a + 1, Min(b, Len(d)))

\* d[o : o+len(pat)] == pat
MatchAt(d, pat, o) ==
    /\ o >= 0
    /\ o + Len(pat) <= Len(d)
    /\ \A k \in 1..Len(pat) : d[o + k] = pat[k]

Occurrences(d, pat) == {o \in 0..Len(d) : MatchAt(d, pat, o)}

\* d.find(pat, from): the lowest offset >= from where pat occurs, else -1.
Find(d, pat, from) ==
    LET hits == {o \in Occurrences(d, pat) : o >= from}
    IN  IF hits = {} THEN -1
        ELSE CHOOSE o \in hits : \A p \in hits : o <= p

\* Python integers are unbounded and TLC's are 32-bit: an unpacked value
\* of 2^30 or more is held as 2^30.  Every use adds it to an offset
\* and compares the sum with len(data), far below 2^30 for every buffer here.
Huge == 256 * 256 * 256 * 64

\* struct.unpack(">I", s)[0]; -1 stands for struct.error (len(s) != 4).
UnpackBE(s) ==
    IF Len(s) # 4 THEN -1
    ELSE IF s[1] >= 64 THEN Huge
    ELSE ((s[1] * 256 + s[2]) * 256 + s[3]) * 256 + s[4]

\* struct.unpack("<I", s)[0]; -1 stands for struct.error (len(s) != 4).
UnpackLE(s) ==
    IF Len(s) # 4 THEN -1
    ELSE IF s[4] >= 64 THEN Huge
    ELSE ((s[4] * 256 + s[3]) * 256 + s[2]) * 256 + s[1]

(***************************************************************************)
(* is_valid_image: Pillow either decodes the blob as the expected format   *)
(* ("match"), decodes it as another format ("mismatch") or raises          *)
(* ("decode_error"); the except clause turns the last into False.          *)
(***************************************************************************)
DecodeOutcomes == {"match", "mismatch", "decode_error"}

\* The value is "True" or "False"; a caller that gets anything else has an
\* exception on its hands and goes to pc = "raised".
IsValidImage(outcome) ==
    CASE outcome = "match" -> "True"
      [] outcome = "mismatch" -> "False"
      [] OTHER -> "False"

\* The decoder is a function of (blob, format): a repeated question gets
\* the answer it got before.
Consistent(blob, fmt, verdict) ==
    \A c \in calls : (c.blob = blob /\ c.fmt = fmt) => c.verdict = verdict

\* Mutant: `if is_valid_image:` (the function object, always truthy).
Accepted_NotCalled(v) == TRUE

\* `if is_valid_image(blob, fmt):` in each scanner
Accepted(v) == v = "True"

Call(fmt, s, e, blob, verdict) ==
    [fmt |-> fmt, start |-> s, end |-> e, blob |-> blob,
     verdict |-> verdict, run |-> run]

Result(o, blob, format) == [offset |-> o, bytes |-> blob, format |-> format]

Cand(scanner, o) == [scanner |-> scanner, hdr |-> hdr, idx |-> o, run |-> run]


(***************************************************************************)
(* extract_pngs                                                            *)
(***************************************************************************)
\* `while pos + 8 <= len(data)`
PngWalkGuard(d, p) == p + 8 <= Len(d)

\* Mutant: `pos += 8 + length`, the CRC is not stepped over.
PngNextPos_NoCrc(p, length) == p + 8 + length

\* `pos += 8 + length + 4`
PngNextPos(p, length) == p + 8 + length + 4

\* Mutant: `start = idx`, the scan start does not move.
PngResume_NoAdvance(i) == i

\* `start = idx + 1` after a failed walk or a rejected blob
PngResume(i) == i + 1

PngFind ==
    /\ pc = "png_find"
    /\ LET i == Find(data, PNG_MAGIC, start)
       IN  IF i = -1
           THEN /\ pc' = "jpeg_find"
                /\ start' = 0
                /\ idx' = -1
                /\ pos' = 0
                /\ UNCHANGED cands
           ELSE /\ pc' = "png_walk"
                /\ idx' = i
                /\ pos' = i + Len(PNG_MAGIC)
                /\ cands' = Append(cands, Cand("png", i))
                /\ UNCHANGED start
    /\ end' = -1
    /\ steps' = steps + 1
    /\ UNCHANGED <<data, hdr, results, out, calls, run, bufA, bufB, outA, outB>>

PngWalk ==
    /\ pc = "png_walk"
    /\ IF PngWalkGuard(data, pos)
       THEN LET length == UnpackBE(Slice(data, pos, pos + 4))
                chunk_type == Slice(data, pos + 4, pos + 8)
                npos == PngNextPos(pos, length)
            IN  IF length = -1
                THEN pc' = "raised" /\ UNCHANGED <<pos, end>>
                ELSE /\ pos' = npos
                     /\ IF npos > Len(data)
                        THEN pc' = "png_check" /\ UNCHANGED end
                        ELSE IF chunk_type = IEND
                             THEN pc' = "png_check" /\ end' = npos
                             ELSE pc' = "png_walk" /\ UNCHANGED end
       ELSE pc' = "png_check" /\ UNCHANGED <<pos, end>>
    /\ steps' = steps + 1
    /\ UNCHANGED <<data, start, idx, hdr, results, out, calls, cands,
                   run, bufA, bufB, outA, outB>>

PngCheck ==
    /\ pc = "png_check"
    /\ IF end # -1
       THEN LET blob == Slice(data, idx, end)
            IN  \E o \in DecodeOutcomes :
                  LET v == IsValidImage(o)
                  IN  /\ Consistent(blob, "PNG", v)
                      /\ calls' = calls \cup {Call("PNG", idx, end, blob, v)}
                      /\ IF Accepted(v)
                         THEN /\ results' = Append(results, Result(idx, blob, "png"))
                              /\ start' = end
                              /\ pc' = "png_find"
                         ELSE IF v = "False"
                              THEN /\ start' = PngResume(idx)
                                   /\ pc' = "png_find"
                                   /\ UNCHANGED results
                              ELSE /\ pc' = "raised"
                                   /\ UNCHANGED <<start, results>>
       ELSE /\ start' = PngResume(idx)
            /\ pc' = "png_find"
            /\ UNCHANGED <<calls, results>>
    /\ steps' = steps + 1
    /\ UNCHANGED <<data, idx, pos, end, hdr, out, cands, run, bufA, bufB, outA, outB>>

(***************************************************************************)
(* extract_jpegs                                                           *)
(***************************************************************************)
\* `blob = data[idx : end + 2]`
JpegBlobEnd(e) == e + 2

\* Mutant: the start is given up at the first rejected end marker.
JpegNextCursor_GiveUp(d, e) == Len(d)

\* `cursor = end + 2` after a rejected end marker
JpegNextCursor(d, e) == e + 2

\* Mutant: `start = idx + len(JPEG_MAGIC)`, past the whole marker.
JpegResume_PastMagic(i) == i + 3

\* `start = idx + 1` when no end marker gave a valid image
JpegResume(i) == i + 1

JpegFind ==
    /\ pc = "jpeg_find"
    /\ LET i == Find(data, JPEG_MAGIC, start)
       IN  IF i = -1
           THEN /\ pc' = "gif_find"
                /\ start' = 0
                /\ idx' = -1
                /\ pos' = 0
                /\ UNCHANGED cands
           ELSE /\ pc' = "jpeg_end"
                /\ idx' = i
                /\ pos' = i + Len(JPEG_MAGIC)
                /\ cands' = Append(cands, Cand("jpg", i))
                /\ UNCHANGED start
    /\ steps' = steps + 1
    /\ UNCHANGED <<data, end, hdr, results, out, calls, run, bufA, bufB, outA, outB>>

JpegEnd ==
    /\ pc = "jpeg_end"
    /\ LET e == Find(data, JPEG_EOI, pos)
       IN  IF e = -1
           THEN /\ start' = JpegResume(idx)
                /\ pc' = "jpeg_find"
                /\ UNCHANGED <<pos, calls, results>>
           ELSE LET blob == Slice(data, idx, JpegBlobEnd(e))
                IN  \E o \in DecodeOutcomes :
                      LET v == IsValidImage(o)
                      IN  /\ Consistent(blob, "JPEG", v)
                          /\ calls' = calls \cup
                                {Call("JPEG", idx, JpegBlobEnd(e), blob, v)}
                          /\ IF Accepted(v)
                             THEN /\ results' = Append(results, Result(idx, blob, "jpg"))
                                  /\ start' = e + 2
                                  /\ pc' = "jpeg_find"
                                  /\ UNCHANGED pos
                             ELSE IF v = "False"
                                  THEN /\ pos' = JpegNextCursor(data, e)
                                       /\ pc' = "jpeg_end"
                                       /\ UNCHANGED <<start, results>>
                                  ELSE /\ pc' = "raised"
                                       /\ UNCHANGED <<start, pos, results>>
    /\ steps' = steps + 1
    /\ UNCHANGED <<data, idx, end, hdr, out, cands, run, bufA, bufB, outA, outB>>

(***************************************************************************)
(* extract_gifs                                                            *)
(***************************************************************************)
\* `cursor = end + 1` after a rejected trailer
GifNextCursor(e) == e + 1

\* `start = idx + 1` when no trailer gave a valid image
GifResume(i) == i + 1

\* `start = end + 1` after an accepted image
GifAcceptResume(e) == e + 1

GifFind ==
    /\ pc = "gif_find"
    /\ LET i == Find(data, GIF_HEADERS[hdr], start)
       IN  IF i = -1
           THEN /\ IF hdr < Len(GIF_HEADERS)
                   THEN pc' = "gif_find" /\ hdr' = hdr + 1
                   ELSE pc' = "bmp_find" /\ hdr' = 1
                /\ start' = 0
                /\ idx' = -1
                /\ pos' = 0
                /\ UNCHANGED cands
           ELSE /\ pc' = "gif_end"
                /\ idx' = i
                /\ pos' = i + Len(GIF_HEADERS[hdr])
                /\ cands' = Append(cands, Cand("gif", i))
                /\ UNCHANGED <<start, hdr>>
    /\ steps' = steps + 1
    /\ UNCHANGED <<data, end, results, out, calls, run, bufA, bufB, outA, outB>>

GifEnd ==
    /\ pc = "gif_end"
    /\ LET e == Find(data, GIF_TRAILER, pos)
       IN  IF e = -1
           THEN /\ start' = GifResume(idx)
                /\ pc' = "gif_find"
                /\ UNCHANGED <<pos, calls, results>>
           ELSE LET blob == Slice(data, idx, e + 1)
                IN  \E o \in DecodeOutcomes :
                      LET v == IsValidImage(o)
                      IN  /\ Consistent(blob, "GIF", v)
                          /\ calls' = calls \cup {Call("GIF", idx, e + 1, blob, v)}
                          /\ IF Accepted(v)
                             THEN /\ results' = Append(results, Result(idx, blob, "gif"))
                                  /\ start' = GifAcceptResume(e)
                                  /\ pc' = "gif_find"
                                  /\ UNCHANGED pos
                             ELSE IF v = "False"
                                  THEN /\ pos' = GifNextCursor(e)
                                       /\ pc' = "gif_end"
                                       /\ UNCHANGED <<start, results>>
                                  ELSE /\ pc' = "raised"
                                       /\ UNCHANGED <<start, pos, results>>
    /\ steps' = steps + 1
    /\ UNCHANGED <<data, idx, end, hdr, out, cands, run, bufA, bufB, outA, outB>>

(***************************************************************************)
(* extract_bmps                                                            *)
(***************************************************************************)
\* Mutant: only the magic is checked to fit, not the size field.
BmpHeaderMissing_MagicOnly(d, i) == i + 2 > Len(d)

\* `if idx + 6 > len(data): break`
BmpHeaderMissing(d, i) == i + 6 > Len(d)

\* Mutant: the declared size is not compared with the buffer length.
BmpSizeOk_NoUpperBound(d, i, size) == size >= minimum_size

\* `size >= minimum_size and idx + size <= len(data)`
BmpSizeOk(d, i, size) == size >= minimum_size /\ i + size <= Len(d)

\* `start = idx + 2` after a refused size or a rejected blob
BmpResume(i) == i + 2

BmpStep ==
    /\ pc = "bmp_find"
    /\ LET i == Find(data, BMP_MAGIC, start)
       IN  IF i = -1
           THEN /\ pc' = "sort"
                /\ start' = 0
                /\ idx' = -1
                /\ UNCHANGED <<cands, calls, results>>
           ELSE IF BmpHeaderMissing(data, i)
           THEN /\ pc' = "sort"
                /\ start' = 0
                /\ idx' = -1
                /\ UNCHANGED <<cands, calls, results>>
           ELSE LET size == UnpackLE(Slice(data, i + 2, i + 6))
                    blob == Slice(data, i, i + size)
                IN  /\ idx' = i
                    /\ IF size = -1
                       THEN /\ pc' = "raised"
                            /\ UNCHANGED <<start, cands, calls, results>>
                       ELSE /\ cands' = Append(cands, Cand("bmp", i))
                            /\ IF BmpSizeOk(data, i, size)
                               THEN \E o \in DecodeOutcomes :
                                      LET v == IsValidImage(o)
                                      IN  /\ Consistent(blob, "BMP", v)
                                          /\ calls' = calls \cup
                                               {Call("BMP", i, i + size, blob, v)}
                                          /\ IF Accepted(v)
                                             THEN /\ results' = Append(results,
                                                         Result(i, blob, "bmp"))
                                                  /\ start' = i + size
                                                  /\ pc' = "bmp_find"
                                             ELSE IF v = "False"
                                                  THEN /\ start' = BmpResume(i)
                                                       /\ pc' = "bmp_find"
                                                       /\ UNCHANGED results
                                                  ELSE /\ pc' = "raised"
                                                       /\ UNCHANGED <<start, results>>
                               ELSE /\ start' = BmpResume(i)
                                    /\ pc' = "bmp_find"
                                    /\ UNCHANGED <<calls, results>>
    /\ steps' = steps + 1
    /\ UNCHANGED <<data, pos, end, hdr, out, run, bufA, bufB, outA, outB>>

(***************************************************************************)
(* extract_images: sorted(results, key=lambda item: item[0])               *)
(***************************************************************************)
\* Place r after every element whose offset is <= r.offset (stable).
InsertByOffset(r, s) ==
    LET before == {k \in 1..Len(s) : s[k].offset <= r.offset}
        n == Cardinality(before)
    IN  SubSeq(s, 1, n) \o <<r>> \o SubSeq(s, n + 1, Len(s))

RECURSIVE SortedPrefix(_, _)
SortedPrefix(rs, n) ==
    IF n = 0 THEN <<>> ELSE InsertByOffset(rs[n], SortedPrefix(rs, n - 1))

\* Mutant: `sorted(..., reverse=True)`, descending offsets.
SortByOffset_Descending(rs) ==
    LET asc == SortedPrefix(rs, Len(rs))
    IN  [k \in 1..Len(asc) |-> asc[Len(asc) + 1 - k]]

\* Mutant: `return results`, the concatenation unsorted.
SortByOffset_Unsorted(rs) == rs

SortByOffset(rs) == SortedPrefix(rs, Len(rs))

Return ==
    /\ pc = "sort"
    /\ out' = SortByOffset(results)
    /\ pc' = "done"
    /\ steps' = steps + 1
    /\ UNCHANGED <<data, start, idx, pos, end, hdr, results, calls, cands,
                   run, bufA, bufB, outA, outB>>

(***************************************************************************)
(* Inputs: buffers built from byte strings that matter to the scanners.    *)
(***************************************************************************)
MaxSegs == 4
MaxMixedSegs == 3
MaxCatSegs == 2

Junk == <<0>>
Pad48 == [k \in 1..48 |-> 0]
\* A chunk is length (big endian), type, data, CRC.
IendChunk == <<0, 0, 0, 0>> \o IEND \o <<174, 66, 96, 130>>
IdatChunk == <<0, 0, 0, 1, 73, 68, 65, 84>> \o <<7>> \o <<1, 2, 3, 4>>
\* A chunk header whose declared length runs far past any buffer here.
LongChunkHead == <<0, 0, 16, 0, 73, 68, 65, 84>>
\* BMP file-size fields (little endian): 54, 10, 4096.
Size54 == <<54, 0, 0, 0>>
Size10 == <<10, 0, 0, 0>>
Size4096 == <<0, 16, 0, 0>>

PngTokens == {Junk, PNG_MAGIC, IendChunk, IdatChunk, LongChunkHead, <<137>>}
JpegTokens == {Junk, JPEG_MAGIC, JPEG_EOI, <<255>>, <<216>>}
GifTokens == {Junk, GIF_HEADERS[1], GIF_HEADERS[2], GIF_TRAILER}
BmpTokens == {Junk, BMP_MAGIC, Size54, Size10, Size4096, Pad48}
MixedTokens == {Junk,
                PNG_MAGIC \o IendChunk,
                JPEG_MAGIC \o JPEG_EOI,
                GIF_HEADERS[1] \o GIF_TRAILER,
                GIF_HEADERS[2] \o GIF_TRAILER,
                BMP_MAGIC \o Size54 \o Pad48}
CatTokens == {PNG_MAGIC, IendChunk, JPEG_MAGIC, JPEG_EOI, <<255>>,
              JPEG_MAGIC \o JPEG_EOI,
              GIF_HEADERS[2], GIF_TRAILER, BMP_MAGIC \o Size54}
\* Second halves: terminators, the rest of a cut signature, whole images.
CatTails == {Junk, IendChunk, JPEG_EOI, GIF_TRAILER, Pad48,
             <<216, 255>> \o JPEG_EOI,
             JPEG_MAGIC \o JPEG_EOI,
             GIF_HEADERS[2] \o GIF_TRAILER}

RECURSIVE Flatten(_)
Flatten(ss) == IF ss = <<>> THEN <<>> ELSE Head(ss) \o Flatten(Tail(ss))

\* Every concatenation of at most n strings of toks.
Strings(toks, n) == {Flatten(ss) : ss \in UNION {[1..k -> toks] : k \in 0..n}}

Buffers ==
    Strings(PngTokens, MaxSegs) \cup Strings(JpegTokens, MaxSegs)
    \cup Strings(GifTokens, MaxSegs) \cup Strings(BmpTokens, MaxSegs)
    \cup Strings(MixedTokens, MaxMixedSegs)

CatBuffers == Strings(CatTokens, MaxCatSegs)

(***************************************************************************)
(* One call of extract_images                                              *)
(***************************************************************************)
Entry(d, r) ==
    /\ data = d
    /\ run = r
    /\ pc = "png_find"
    /\ start = 0
    /\ idx = -1
    /\ pos = 0
    /\ end = -1
    /\ hdr = 1
    /\ results = <<>>
    /\ out = <<>>
    /\ calls = {}
    /\ cands = <<>>
    /\ outA = <<>>
    /\ outB = <<>>
    /\ steps = 0

Init ==
    /\ bufA = <<>>
    /\ bufB = <<>>
    /\ \E d \in Buffers : Entry(d, "one")

Next ==
    \/ PngFind
    \/ PngWalk
    \/ PngCheck
    \/ JpegFind
    \/ JpegEnd
    \/ GifFind
    \/ GifEnd
    \/ BmpStep
    \/ Return

Spec == Init /\ [][Next]_vars

\* Every step is a step of the one thread of control; it is taken.
FairSpec == Spec /\ WF_vars(Next)

(***************************************************************************)
(* extract_images(A), extract_images(B), then extract_images(A ++ B)       *)
(***************************************************************************)
NextInput ==
    /\ pc = "done"
    /\ run \in {"A", "B"}
    /\ IF run = "A"
       THEN /\ outA' = out
            /\ run' = "B"
            /\ data' = bufB
            /\ UNCHANGED outB
       ELSE /\ outB' = out
            /\ run' = "AB"
            /\ data' = bufA \o bufB
            /\ UNCHANGED outA
    /\ pc' = "png_find"
    /\ results' = <<>>
    /\ out' = <<>>
    /\ steps' = 0
    /\ UNCHANGED <<start, idx, pos, end, hdr, calls, cands, bufA, bufB>>

InitCat ==
    /\ bufA \in CatBuffers
    /\ bufB \in CatTails
    /\ Entry(bufA, "A")

NextCat == Next \/ NextInput

SpecCat == InitCat /\ [][NextCat]_vars

(***************************************************************************)
(* Properties                                                              *)
(***************************************************************************)
Done == pc = "done"

RangeEnd(r) == r.offset + Len(r.bytes)

Elems(seq) == {seq[k] : k \in 1..Len(seq)}

\* The decoder format a result tag stands for.
FormatOfTag(tag) ==
    CASE tag = "png" -> "PNG"
      [] tag = "jpg" -> "JPEG"
      [] tag = "gif" -> "GIF"
      [] tag = "bmp" -> "BMP"

\* C1: the list extract_images returns is sorted non-decreasingly by offset.
C1_OutputSorted ==
    Done => \A k \in 1..(Len(out) - 1) : out[k].offset <= out[k + 1].offset

\* C1 witness: the scanners' concatenated output was out of order (a later
\* scanner or GIF pass emitted a lower offset) and at least two came out.
C1_Witness ==
    /\ Done
    /\ Len(out) >= 2
    /\ \E k \in 1..(Len(results) - 1) : results[k].offset > results[k + 1].offset

\* r is a byte-exact in-buffer slice on which the validator was asked, with
\* the format of the tag, and answered true.
WellFormedResult(r) ==
    /\ r.offset >= 0
    /\ RangeEnd(r) <= Len(data)
    /\ r.bytes = [k \in 1..Len(r.bytes) |-> data[r.offset + k]]
    /\ r.format \in {"png", "jpg", "gif", "bmp"}
    /\ \E c \in calls :
          /\ c.run = run
          /\ c.fmt = FormatOfTag(r.format)
          /\ c.start = r.offset
          /\ c.end = RangeEnd(r)
          /\ c.blob = r.bytes
          /\ c.verdict = "True"
    /\ \A c \in calls :
          (c.fmt = FormatOfTag(r.format) /\ c.blob = r.bytes) => c.verdict = "True"

\* C2: every result a scanner emits, and every result extract_images
\* returns, is a byte-exact in-buffer slice on which the validator was asked,
\* with the format of the tag, and answered true.
C2_ResultsValidated ==
    /\ \A r \in Elems(results) : WellFormedResult(r)
    /\ \A r \in Elems(out) : WellFormedResult(r)

\* C2 witness: a returned result of a scan in which the validator also
\* rejected a candidate.
C2_Witness ==
    /\ Done
    /\ out # <<>>
    /\ \E c \in calls : c.verdict = "False"

\* An offset where a signature is cut off by the end of the buffer, or
\* where the 4-byte field after it is.
TruncatedTail ==
    \/ \E o \in Occurrences(data, BMP_MAGIC) : o + 6 > Len(data)
    \/ \E o \in Occurrences(data, PNG_MAGIC) :
          o + 8 + 8 > Len(data) /\ o + 8 < Len(data)

\* C3: no scanner raises: every 4-byte read is of 4 bytes, the validator
\* answers a boolean, and the scan is never left in an error state.
C3_NeverRaises ==
    /\ pc # "raised"
    /\ \A c \in calls : c.verdict \in {"True", "False"}
    /\ Done => \A r \in Elems(out) : r.offset \in 0..Len(data)

\* C3 witness: extract_images returned on a buffer that ends inside a size
\* field or a chunk header.
C3_Witness == Done /\ TruncatedTail

(***************************************************************************)
(* Termination                                                             *)
(***************************************************************************)
\* Scanners still to run, the running one included.
Phase ==
    CASE pc \in {"png_find", "png_walk", "png_check"} -> 5
      [] pc \in {"jpeg_find", "jpeg_end"} -> 4
      [] pc \in {"gif_find", "gif_end"} -> 4 - hdr
      [] pc = "bmp_find" -> 1
      [] OTHER -> 0

\* Steps the running outer-loop iteration may still take.
Inner ==
    CASE pc \in {"png_find", "jpeg_find", "gif_find", "bmp_find"} -> Len(data) + 2
      [] pc \in {"png_walk", "jpeg_end", "gif_end"} -> Len(data) + 1 - pos
      [] pc = "sort" -> 1
      [] OTHER -> 0

\* A bound on the steps left, a function of the position in the scan and
\* of len(data) alone: at most 6 * (len + 2) * (len + 3).
Rank ==
    LET W == Len(data) + 3
    IN  Phase * (Len(data) + 2) * W + (Len(data) + 1 - start) * W + Inner

\* What one step does to the scan start, the search cursor and the chunk
\* walk position.
ProgressStep ==
    /\ Rank' < Rank
    /\ (pc = "png_walk" /\ pc' = "png_walk") => pos' > pos
    /\ (pc = "png_check") =>
          /\ start' > start
          /\ start' \in {end, idx + 1}
    /\ (pc \in {"jpeg_end", "gif_end"} /\ pc' = pc) => pos' > pos
    /\ (pc = "jpeg_end" /\ pc' = "jpeg_find") =>
          /\ start' > start
          /\ \/ start' = idx + 1
             \/ /\ results' # results
                /\ start' = RangeEnd(results'[Len(results')])
    /\ (pc = "gif_end" /\ pc' = "gif_find") =>
          /\ start' > start
          /\ \/ start' = idx + 1
             \/ /\ results' # results
                /\ start' = RangeEnd(results'[Len(results')])
    /\ (pc = "bmp_find" /\ pc' = "bmp_find") =>
          /\ start' > start
          /\ \/ \E o \in Occurrences(data, BMP_MAGIC) : start' = o + 2
             \/ /\ results' # results
                /\ start' = RangeEnd(results'[Len(results')])

StepBound == 6 * (Len(data) + 2) * (Len(data) + 3)

\* C4: every step strictly lowers a rank that is a function of the scan
\* position and len(data): scan starts, search cursors and the chunk walk
\* position strictly increase, and the steps taken plus the steps left
\* never exceed a bound that depends on len(data) alone.
C4_Terminates ==
    /\ [][ProgressStep]_vars
    /\ [](Rank >= 0 /\ steps + Rank <= StepBound)

\* C4 witness: a JPEG end-marker search that went past a rejected marker
\* and a later scanner both ran to the return.
C4_Witness ==
    /\ Done
    /\ \E c \in calls : c.fmt = "JPEG" /\ c.verdict = "False"
    /\ \E k \in 1..Len(cands) : cands[k].scanner = "jpg" /\ cands[k].idx > 0

(***************************************************************************)
(* JPEG end-marker search                                                  *)
(***************************************************************************)
CandsOf(scanner, h) ==
    {cands[k].idx : k \in {j \in 1..Len(cands) :
        cands[j].scanner = scanner /\ cands[j].hdr = h /\ cands[j].run = run}}

ResultsAt(tag, o) ==
    {k \in 1..Len(results) : results[k].format = tag /\ results[k].offset = o}

\* End-marker occurrences a search from start s can meet.
EoiAfter(s) == {e \in Occurrences(data, JPEG_EOI) : e >= s + 3}

\* The validator was asked about [s, e + 2) as a JPEG and gave `verdict`.
JpegAsked(s, e, verdict) ==
    \E c \in calls :
        /\ c.run = run /\ c.fmt = "JPEG"
        /\ c.start = s /\ c.end = e + 2 /\ c.verdict = verdict

JpegScanned == pc \notin {"png_find", "png_walk", "png_check", "jpeg_find", "jpeg_end"}

\* C6: for every JPEG start s taken up, the end markers after s are tried
\* in order, past each rejected one; the slice emitted for s ends just
\* after the first accepted one, and s is given up only when all are
\* rejected.
C6_JpegFirstAcceptedEnd ==
    JpegScanned =>
      \A s \in CandsOf("jpg", 1) :
        LET acc == {e \in EoiAfter(s) : JpegAsked(s, e, "True")}
        IN  IF acc = {}
            THEN /\ \A e \in EoiAfter(s) : JpegAsked(s, e, "False")
                 /\ ResultsAt("jpg", s) = {}
            ELSE \E t \in acc :
                   /\ acc = {t}
                   /\ \A e \in EoiAfter(s) :
                        /\ e < t => JpegAsked(s, e, "False")
                        /\ e > t => ~JpegAsked(s, e, "True") /\ ~JpegAsked(s, e, "False")
                   /\ Cardinality(ResultsAt("jpg", s)) = 1
                   /\ \A k \in ResultsAt("jpg", s) :
                        results[k].bytes = Slice(data, s, t + 2)

\* C6 witness: a start whose first end marker was rejected and whose later
\* end marker was accepted and emitted.
C6_Witness ==
    /\ Done
    /\ \E s \in CandsOf("jpg", 1) : \E e1, e2 \in EoiAfter(s) :
         /\ e1 < e2
         /\ JpegAsked(s, e1, "False")
         /\ JpegAsked(s, e2, "True")
         /\ ResultsAt("jpg", s) # {}

(***************************************************************************)
(* PNG chunk streams                                                       *)
(***************************************************************************)
\* The PNG format: from offset p, chunks of 4-byte length, 4-byte type,
\* data and 4-byte CRC follow each other; the stream ends after the first
\* IEND chunk.  -1 when the buffer ends before that.
RECURSIVE PngStreamEnd(_, _)
PngStreamEnd(d, p) ==
    IF p + 8 > Len(d) THEN -1
    ELSE LET length == UnpackBE(SubSeq(d, p + 1, p + 4))
             e == p + 4 + 4 + length + 4
         IN  IF e > Len(d) THEN -1
             ELSE IF SubSeq(d, p + 5, p + 8) = IEND THEN e
             ELSE PngStreamEnd(d, e)

PngScanned == pc \notin {"png_find", "png_walk", "png_check"}

PngResults == SelectSeq(results, LAMBDA r : r.format = "png")

\* The validator accepts [o, e) as a PNG and no other range it is asked about.
OnlyPngAt(o, e) ==
    \A c \in calls :
        (c.run = run /\ c.fmt = "PNG") =>
            (c.verdict = "True" <=> (c.start = o /\ c.end = e))

\* C7: when the buffer holds a well-formed PNG at offset o (signature, chunks,
\* IEND last) and that is the only range the validator accepts as a PNG,
\* extract_pngs returns exactly one result, o with the bytes up to the end
\* of the IEND chunk.
C7_SinglePng ==
    PngScanned =>
      \A o \in Occurrences(data, PNG_MAGIC) :
        LET e == PngStreamEnd(data, o + 8)
        IN  (e # -1 /\ OnlyPngAt(o, e)) =>
               PngResults = <<Result(o, Slice(data, o, e), "png")>>

\* C7 witness: such a PNG with bytes before it and junk after it, returned.
C7_Witness ==
    /\ Done
    /\ \E o \in Occurrences(data, PNG_MAGIC) :
         LET e == PngStreamEnd(data, o + 8)
         IN  /\ o > 0
             /\ e # -1
             /\ e < Len(data)
             /\ OnlyPngAt(o, e)
             /\ Len(PngResults) = 1

(***************************************************************************)
(* Ranges of one scanner                                                   *)
(***************************************************************************)
Overlap(r1, r2) == r1.offset < RangeEnd(r2) /\ r2.offset < RangeEnd(r1)

\* C5: the byte ranges of any two distinct results of one scanner do not
\* overlap; for extract_gifs this covers both header passes together.
C5_ScannerRangesDisjoint ==
    \A j, k \in 1..Len(results) :
        (j # k /\ results[j].format = results[k].format) =>
            ~Overlap(results[j], results[k])

(***************************************************************************)
(* Malformed candidates                                                    *)
(***************************************************************************)
\* The candidate the BMP scanner takes up next, -1 when there is none.
BmpNext == Find(data, BMP_MAGIC, start)

\* The size field after the magic at offset i (the 4 bytes are there).
DeclaredSize(i) == UnpackLE(SubSeq(data, i + 3, i + 6))

Dropped(resume, at) ==
    /\ results' = results
    /\ calls' = calls
    /\ start' = resume
    /\ pc' = at

\* What the step that settles a malformed candidate does.
MalformedStep ==
    /\ (pc = "png_check" /\ PngStreamEnd(data, idx + 8) = -1) =>
          Dropped(idx + 1, "png_find")
    /\ (pc = "jpeg_end" /\ EoiAfter(idx) = {}) =>
          Dropped(idx + 1, "jpeg_find")
    /\ (pc = "gif_end" /\ Find(data, GIF_TRAILER, idx + 6) = -1) =>
          Dropped(idx + 1, "gif_find")
    /\ (/\ pc = "bmp_find"
        /\ BmpNext # -1
        /\ BmpNext + 6 <= Len(data)
        /\ \/ DeclaredSize(BmpNext) < 54
           \/ BmpNext + DeclaredSize(BmpNext) > Len(data)) =>
          Dropped(BmpNext + 2, "bmp_find")

\* No result stands on a malformed candidate, and the validator is asked
\* about in-buffer ranges only.
NoMalformedOutput ==
    /\ \A c \in calls :
          c.run = run => (0 <= c.start /\ c.start < c.end /\ c.end <= Len(data))
    /\ \A r \in Elems(results) :
          /\ r.format = "png" => PngStreamEnd(data, r.offset + 8) = RangeEnd(r)
          /\ r.format = "jpg" => RangeEnd(r) - 2 \in EoiAfter(r.offset)
          /\ r.format = "gif" =>
                MatchAt(data, GIF_TRAILER, RangeEnd(r) - 1) /\ Len(r.bytes) >= 7
          /\ r.format = "bmp" =>
                /\ DeclaredSize(r.offset) >= 54
                /\ DeclaredSize(r.offset) = Len(r.bytes)

\* C8: a PNG signature whose chunk stream runs past the buffer before IEND,
\* a BMP magic whose declared size is below 54 or past the buffer, and a
\* JPEG or GIF start with no terminator after it give no result and no
\* validator call, and the scan goes on at signature + 1 (BMP: magic + 2);
\* the validator is never asked about a range outside the buffer.
C8_MalformedDropped == [][MalformedStep]_vars /\ []NoMalformedOutput

\* C8 witness: a PNG signature with an overrunning chunk was dropped and a
\* PNG after it was still returned.
C8_Witness ==
    /\ Done
    /\ \E o \in CandsOf("png", 1) :
         /\ PngStreamEnd(data, o + 8) = -1
         /\ \E r \in Elems(out) : r.format = "png" /\ r.offset > o

(***************************************************************************)
(* Scan completeness                                                       *)
(***************************************************************************)
CandCount(scanner, h, o) ==
    Cardinality({k \in 1..Len(cands) :
        /\ cands[k].scanner = scanner /\ cands[k].hdr = h
        /\ cands[k].idx = o /\ cands[k].run = run})

\* Offset o lies inside a range this scanner (this header pass) accepted
\* from an earlier start.
Covered(tag, magic, o) ==
    \E r \in Elems(results) :
        /\ r.format = tag
        /\ SubSeq(r.bytes, 1, Len(magic)) = magic
        /\ r.offset < o
        /\ o < RangeEnd(r)

\* Every occurrence of magic outside the accepted ranges was taken up as a
\* candidate once, no occurrence twice, and nothing else was taken up.
Complete(scanner, h, magic) ==
    /\ \A o \in Occurrences(data, magic) :
          /\ CandCount(scanner, h, o) <= 1
          /\ ~Covered(scanner, magic, o) => CandCount(scanner, h, o) = 1
    /\ CandsOf(scanner, h) \subseteq Occurrences(data, magic)

\* C10: each scanner takes up every occurrence of its signature that is not
\* inside a range it accepted, exactly once; the BMP scanner skips only
\* occurrences with fewer than 4 bytes after the magic, which could not
\* have passed the size check.
C10_ScanComplete ==
    Done =>
      /\ Complete("png", 1, PNG_MAGIC)
      /\ Complete("jpg", 1, JPEG_MAGIC)
      /\ \A h \in 1..Len(GIF_HEADERS) : Complete("gif", h, GIF_HEADERS[h])
      /\ \A o \in Occurrences(data, BMP_MAGIC) :
            /\ CandCount("bmp", 1, o) <= 1
            /\ (~Covered("bmp", BMP_MAGIC, o) /\ o + 6 <= Len(data)) =>
                  CandCount("bmp", 1, o) = 1
            /\ (~Covered("bmp", BMP_MAGIC, o) /\ CandCount("bmp", 1, o) = 0) =>
                  o + minimum_size > Len(data)
      /\ CandsOf("bmp", 1) \subseteq Occurrences(data, BMP_MAGIC)

\* C10 witness: two overlapping JPEG start markers (FF D8 FF D8 FF), both
\* taken up.
C10_Witness ==
    /\ Done
    /\ \E o \in CandsOf("jpg", 1) : o + 2 \in CandsOf("jpg", 1)

(***************************************************************************)
(* Concatenated inputs                                                     *)
(***************************************************************************)
Shift(rs, n) == [k \in 1..Len(rs) |-> [rs[k] EXCEPT !.offset = @ + n]]

ConcatDone == run = "AB" /\ Done

\* A validator call of the run on A ++ B about a range that starts in A
\* and ends in B.
Straddles(c) == c.run = "AB" /\ c.start < Len(bufA) /\ c.end > Len(bufA)

\* The formats whose signature occurs in d.
FormatsIn(d) ==
    {f \in {"png", "jpg", "gif", "bmp"} :
        \/ f = "png" /\ Occurrences(d, PNG_MAGIC) # {}
        \/ f = "jpg" /\ Occurrences(d, JPEG_MAGIC) # {}
        \/ f = "gif" /\ \E h \in 1..Len(GIF_HEADERS) : Occurrences(d, GIF_HEADERS[h]) # {}
        \/ f = "bmp" /\ Occurrences(d, BMP_MAGIC) # {}}

\* C9 as claimed: for halves that hold signatures of disjoint formats,
\* extract_images(A ++ B) is extract_images(A) followed by extract_images(B)
\* with its offsets shifted by len(A), whatever A ends with.
C9_Concatenation ==
    (ConcatDone /\ FormatsIn(bufA) \cap FormatsIn(bufB) = {}) =>
        out = outA \o Shift(outB, Len(bufA))

\* C9 amended: the same equality, provided the validator accepts no range
\* of A ++ B that starts in A and ends in B.
C9_ConcatenationNoStraddle ==
    (ConcatDone /\ \A c \in calls : Straddles(c) => c.verdict = "False") =>
        out = outA \o Shift(outB, Len(bufA))

\* C9 witness: both halves gave results, a candidate reaching from A into B
\* was asked about and rejected, and the concatenation gave both.
C9_Witness ==
    /\ ConcatDone
    /\ outA # <<>>
    /\ outB # <<>>
    /\ \E c \in calls : Straddles(c)
    /\ \A c \in calls : Straddles(c) => c.verdict = "False"
    /\ Len(out) = Len(outA) + Len(outB)

====
